---- MODULE Spec2Model ----
(***************************************************************************)
(* The query resolvers of the sales-analysis GraphQL service               *)
(* (src/src/graphql/resolvers.js) over the three Mongoose collections      *)
(* Customer, Product and Order.                                            *)
(*                                                                         *)
(* Money is counted in thousandths of the currency unit ("mills"), so a    *)
(* value with two decimals is a multiple of 10 and rounding to 2 decimals  *)
(* is observable.  Dates are day numbers.  A nullable value is a set with  *)
(* at most one element: {} is null.                                        *)
(***************************************************************************)
EXTENDS Integers, Sequences, FiniteSets, TLC

VARIABLES
    customers,  \* the Customer collection (models/Customer.js)
    products,   \* the Product collection (models/Product.js)
    orders,     \* the Order collection (models/Order.js)
    pc,         \* where the running resolver stands: idle, an await, done
    op,         \* the query being answered
    args,       \* its arguments
    storeLog,   \* the store accesses issued by the running query, in order
    storeErr,   \* the error the store raised in the running query, or "none"
    tasks,      \* the promises the running query waits on
    result      \* what the resolver returned or threw

vars == <<customers, products, orders, pc, op, args, storeLog, storeErr, tasks, result>>

data == <<customers, products, orders>>

\* ---------------------------------------------------------------- bounds

MaxOrders == 2

MaxLimit == 2

OrderIds == <<"o1", "o2", "o3", "o4">>

\* ------------------------------------------------------------- the store

Statuses == {"pending", "completed", "canceled"}

OrderItem(productId, quantity, priceAtPurchase) ==
    [productId |-> productId, quantity |-> quantity, priceAtPurchase |-> priceAtPurchase]

CustomerDoc(id, name) == [_id |-> id, name |-> name]

ProductDoc(id, name, category) == [_id |-> id, name |-> name, category |-> category]

\* Model.findById: the document with that _id, or null.
FindById(collection, id) == {d \in collection : d._id = id}

\* ------------------------------------------------------------ arithmetic

RECURSIVE SumOf(_, _)
\* $sum over a set of documents of the number f[d] each document d gives.
SumOf(docs, f) ==
    IF docs = {} THEN 0
    ELSE LET d == CHOOSE x \in docs : TRUE
         IN  f[d] + SumOf(docs \ {d}, f)

\* The sequences that list every element of S once.
Perms(S) ==
    {s \in [1..Cardinality(S) -> S] : \A i, j \in 1..Cardinality(S) : s[i] = s[j] => i = j}

\* $sort {key: -1}: any listing of the documents with key[d] descending;
\* documents with equal keys come in any order.
SortDesc(docs, key) ==
    {s \in Perms(docs) : \A i \in 1..(Len(s) - 1) : key[s[i]] >= key[s[i + 1]]}

\* The values with 2 decimals (multiples of 10 mills) that num/den mills can
\* round to, num >= 0, den > 0.  Away from a tie there is one; a value that
\* is a decimal tie is stored as the nearest binary double, which lies just
\* below or just above the tie, so either neighbour can come out.
Round2Set(num, den) ==
    LET lo == ((num \div (10 * den))) * 10
        twiceRem == 2 * (num - lo * den)
    IN  IF twiceRem < 10 * den THEN {lo}
        ELSE IF twiceRem > 10 * den THEN {lo + 10}
        ELSE {lo, lo + 10}

\* parseFloat(x.toFixed(2)) for x = num/den mills.
ToFixed2(num, den) == Round2Set(num, den)

\* ------------------------------------------------------------- errors

GraphQLError(code) == [type |-> "GraphQLError", code |-> code]

StoreError(type) == [type |-> type, code |-> "UNSET"]

Ok(value) == [status |-> "ok", code |-> "UNSET", value |-> value]

Failed(err) == [status |-> "error", code |-> err.code, value |-> {}]

NoResult == [status |-> "none", code |-> "UNSET", value |-> {}]

\* The error kind the caller sees: a GraphQLError thrown without
\* extensions.code is reported as an internal server error.
ErrorKind(code) ==
    CASE code = "BAD_USER_INPUT" -> "BAD_INPUT"
      [] code = "NOT_FOUND" -> "NOT_FOUND"
      [] OTHER -> "INTERNAL"

\* ------------------------------------------------- getCustomerSpending

NoArg == "<undefined>"

\* !customerId
Falsy(x) == x \in {NoArg, ""}

CustomerIdArgs == {NoArg, "", "c1", "c2"}

\* The pipeline without its $match stage.
SpendingMatchAll(docs, customerId) == docs

\* { $match: { customerId: customerId } }
SpendingMatch(docs, customerId) == {o \in docs : o.customerId = customerId}

\* $group taking $last instead of $first of the sorted documents.
SpendingGroupLast(sorted) ==
    IF Len(sorted) = 0 THEN <<>>
    ELSE LET docs == {sorted[i] : i \in 1..Len(sorted)}
             total == SumOf(docs, [d \in docs |-> d.totalAmount])
             count == Len(sorted)
         IN  <<[customerId |-> sorted[1].customerId,
                totalSpent |-> total,
                lastOrderDate |-> {sorted[Len(sorted)].orderDate},
                averageOrderValue |->
                    IF count = 0 THEN [num |-> 0, den |-> 1]
                    ELSE [num |-> total, den |-> count]]>>

\* $group + $project of the spending pipeline applied to the sorted
\* documents: no document gives no group.
SpendingGroup(sorted) ==
    IF Len(sorted) = 0 THEN <<>>
    ELSE LET docs == {sorted[i] : i \in 1..Len(sorted)}
             total == SumOf(docs, [d \in docs |-> d.totalAmount])
             count == Len(sorted)
         IN  <<[customerId |-> sorted[1].customerId,
                totalSpent |-> total,
                lastOrderDate |-> {sorted[1].orderDate},
                averageOrderValue |->
                    IF count = 0 THEN [num |-> 0, den |-> 1]
                    ELSE [num |-> total, den |-> count]]>>

\* Order.aggregate(spendingPipeline): the arrays the store can answer with.
SpendingPipeline(docs, customerId) ==
    LET matched == SpendingMatch(docs, customerId)
    IN  {SpendingGroup(s) : s \in SortDesc(matched, [o \in matched |-> o.orderDate])}

\* The catch block of getCustomerSpending.
CatchSpending(error) ==
    IF error.type = "CastError" THEN GraphQLError("BAD_USER_INPUT")
    ELSE GraphQLError("INTERNAL_SERVER_ERROR")

CallGetCustomerSpending ==
    /\ pc = "idle"
    /\ \E customerId \in CustomerIdArgs :
        /\ op' = "getCustomerSpending"
        /\ args' = [customerId |-> customerId]
        /\ storeErr' = "none"
        /\ IF Falsy(customerId)
           THEN /\ result' = Failed(GraphQLError("BAD_USER_INPUT"))
                /\ storeLog' = <<>>
                /\ pc' = "done"
           ELSE /\ result' = NoResult
                /\ storeLog' = <<"Order.aggregate">>
                /\ pc' = "spending_aggregate"
    /\ UNCHANGED <<data, tasks>>

SpendingAggregateReturns ==
    /\ pc = "spending_aggregate"
    /\ \/ \E res \in SpendingPipeline(orders, args.customerId) :
            IF Len(res) > 0
            THEN \E total \in ToFixed2(res[1].totalSpent, 1),
                    avg \in ToFixed2(res[1].averageOrderValue.num, res[1].averageOrderValue.den) :
                    /\ result' = Ok([customerId |-> res[1].customerId,
                                     totalSpent |-> total,
                                     averageOrderValue |-> avg,
                                     lastOrderDate |-> res[1].lastOrderDate])
                    /\ pc' = "done"
                    /\ UNCHANGED <<storeLog, storeErr>>
            ELSE /\ storeLog' = Append(storeLog, "Customer.findById")
                 /\ pc' = "spending_findById"
                 /\ UNCHANGED <<result, storeErr>>
       \/ /\ storeErr' = "MongoError"
          /\ result' = Failed(CatchSpending(StoreError("MongoError")))
          /\ pc' = "done"
          /\ UNCHANGED storeLog
    /\ UNCHANGED <<data, op, args, tasks>>

SpendingFindByIdReturns ==
    /\ pc = "spending_findById"
    /\ \/ LET customerExists == FindById(customers, args.customerId)
          IN  /\ result' = IF customerExists = {}
                           THEN Failed(CatchSpending(GraphQLError("NOT_FOUND")))
                           ELSE Ok([customerId |-> args.customerId,
                                    totalSpent |-> 0,
                                    averageOrderValue |-> 0,
                                    lastOrderDate |-> {}])
              /\ UNCHANGED storeErr
       \/ \E e \in {"CastError", "MongoError"} :
            /\ storeErr' = e
            /\ result' = Failed(CatchSpending(StoreError(e)))
    /\ pc' = "done"
    /\ UNCHANGED <<data, op, args, storeLog, tasks>>

\* ----------------------------------------------- getTopSellingProducts

LimitArgs == {{}} \cup {{n} : n \in (0 - 1)..MaxLimit}

\* A test that lets limit 0 through.
BadLimitNegative(limit) == limit = {} \/ \E n \in limit : n < 0

\* !limit || limit <= 0, for the limit argument, {} when it is absent.
BadLimit(limit) == limit = {} \/ \E n \in limit : n = 0 \/ n <= 0

\* { $unwind: '$products' }: one document per line item of every order.
UnwindProducts(docs) ==
    UNION {{[_id |-> o._id, idx |-> i, productId |-> o.products[i].productId,
             quantity |-> o.products[i].quantity,
             priceAtPurchase |-> o.products[i].priceAtPurchase] :
                i \in DOMAIN o.products} : o \in docs}

\* $group by products.productId with totalSold: { $sum: quantity }.
GroupByProduct(items) ==
    {[_id |-> p,
      totalSold |-> LET mine == {it \in items : it.productId = p}
                    IN  SumOf(mine, [it \in mine |-> it.quantity])] :
        p \in {it.productId : it \in items}}

\* { $limit: n }
Limit(s, n) == SubSeq(s, 1, IF n < Len(s) THEN n ELSE Len(s))

\* $lookup from products on _id, $unwind productInfo, $project: a group
\* comes out once per product document it joins to.
RECURSIVE LookupProductName(_, _)
LookupProductName(groups, prods) ==
    IF Len(groups) = 0 THEN <<>>
    ELSE LET g == Head(groups)
             productInfo == FindById(prods, g._id)
         IN  (IF productInfo = {} THEN <<>>
              ELSE LET info == CHOOSE d \in productInfo : TRUE
                   IN  <<[productId |-> g._id, name |-> info.name, totalSold |-> g.totalSold]>>)
             \o LookupProductName(Tail(groups), prods)

\* The pipeline without its $sort stage.
TopSellingUnsorted(docs, prods, limit) ==
    {LookupProductName(Limit(s, limit), prods) : s \in Perms(GroupByProduct(UnwindProducts(docs)))}

\* The pipeline with the join placed before $limit.
TopSellingJoinFirst(docs, prods, limit) ==
    LET groups == GroupByProduct(UnwindProducts(docs))
    IN  {Limit(LookupProductName(s, prods), limit) :
            s \in SortDesc(groups, [g \in groups |-> g.totalSold])}

\* Order.aggregate(topSellingPipeline): the arrays the store can answer with.
TopSellingPipeline(docs, prods, limit) ==
    LET groups == GroupByProduct(UnwindProducts(docs))
    IN  {LookupProductName(Limit(s, limit), prods) :
            s \in SortDesc(groups, [g \in groups |-> g.totalSold])}

CallGetTopSellingProducts ==
    /\ pc = "idle"
    /\ \E limit \in LimitArgs :
        /\ op' = "getTopSellingProducts"
        /\ args' = [limit |-> limit]
        /\ storeErr' = "none"
        /\ IF BadLimit(limit)
           THEN /\ result' = Failed(GraphQLError("BAD_USER_INPUT"))
                /\ storeLog' = <<>>
                /\ pc' = "done"
           ELSE /\ result' = NoResult
                /\ storeLog' = <<"Order.aggregate">>
                /\ pc' = "top_aggregate"
    /\ UNCHANGED <<data, tasks>>

TopAggregateReturns ==
    /\ pc = "top_aggregate"
    /\ \/ \E n \in args.limit : \E results \in TopSellingPipeline(orders, products, n) :
            /\ result' = Ok(results)
            /\ UNCHANGED storeErr
       \/ /\ storeErr' = "MongoError"
          /\ result' = Failed(GraphQLError("INTERNAL_SERVER_ERROR"))
    /\ pc' = "done"
    /\ UNCHANGED <<data, op, args, storeLog, tasks>>

\* --------------------------------------------------- getSalesAnalytics

DateStrings == {"2024-01-01", "2024-01-02", "2024-01-03", "yesterday"}

\* new Date(string).getTime(): the day number, {} for an Invalid Date (NaN).
NewDate(string) ==
    CASE string = "2024-01-01" -> {1}
      [] string = "2024-01-02" -> {2}
      [] string = "2024-01-03" -> {3}
      [] OTHER -> {}

\* matchStage with $lte in place of $lt.
MatchStageClosed(docs, start, end) ==
    {o \in docs : o.status = "completed" /\ o.orderDate >= start /\ o.orderDate <= end}

\* matchStage: completed orders with start <= orderDate < end.
MatchStage(docs, start, end) ==
    {o \in docs : o.status = "completed" /\ o.orderDate >= start /\ o.orderDate < end}

\* Order.aggregate(overallAnalyticsPipeline): one group for all the matched
\* documents, none when nothing matches.
OverallAnalyticsPipeline(docs, start, end) ==
    LET matched == MatchStage(docs, start, end)
    IN  IF matched = {} THEN <<>>
        ELSE <<[totalRevenue |-> SumOf(matched, [o \in matched |-> o.totalAmount]),
                completedOrders |-> Cardinality(matched)]>>

\* itemRevenue without the quantity.
ItemsWithCategoryUnitPrice(matched, prods) ==
    UNION {{[_id |-> it._id, idx |-> it.idx, category |-> info.category,
             itemRevenue |-> it.priceAtPurchase] :
                info \in FindById(prods, it.productId)} : it \in UnwindProducts(matched)}

\* $unwind, $project itemRevenue, $lookup, $unwind productInfo: the line
\* items of the matched orders that join to a product, with its category.
ItemsWithCategory(matched, prods) ==
    UNION {{[_id |-> it._id, idx |-> it.idx, category |-> info.category,
             itemRevenue |-> it.quantity * it.priceAtPurchase] :
                info \in FindById(prods, it.productId)} : it \in UnwindProducts(matched)}

\* Order.aggregate(categoryBreakdownPipeline): the arrays the store can
\* answer with; $group by category, $round to 2 decimals, $sort descending.
CategoryBreakdownPipeline(docs, prods, start, end) ==
    LET items == ItemsWithCategory(MatchStage(docs, start, end), prods)
        cats == {it.category : it \in items}
        revenue(c) == LET mine == {it \in items : it.category = c}
                      IN  SumOf(mine, [it \in mine |-> it.itemRevenue])
    IN  UNION {LET rounded == {[category |-> c, revenue |-> r[c]] : c \in cats}
               IN  SortDesc(rounded, [x \in rounded |-> x.revenue]) :
                r \in {f \in [cats -> UNION {Round2Set(revenue(c), 1) : c \in cats}] :
                            \A c \in cats : f[c] \in Round2Set(revenue(c), 1)}}

Pending == [state |-> "pending", value |-> <<>>]

Fulfilled(value) == [state |-> "fulfilled", value |-> value]

Rejected == [state |-> "rejected", value |-> <<>>]

\* The body of getSalesAnalytics up to the await: the dates are checked and
\* both aggregations are started.
CallGetSalesAnalytics ==
    /\ pc = "idle"
    /\ \E startDate \in DateStrings, endDate \in DateStrings :
        LET start == NewDate(startDate)
            end == NewDate(endDate)
        IN  /\ op' = "getSalesAnalytics"
            /\ args' = [startDate |-> startDate, endDate |-> endDate]
            /\ storeErr' = "none"
            /\ IF start = {} \/ end = {}
               THEN /\ result' = Failed(GraphQLError("BAD_USER_INPUT"))
                    /\ storeLog' = <<>>
                    /\ tasks' = <<>>
                    /\ pc' = "done"
               ELSE IF \E a \in start, b \in end : a >= b
               THEN /\ result' = Failed(GraphQLError("BAD_USER_INPUT"))
                    /\ storeLog' = <<>>
                    /\ tasks' = <<>>
                    /\ pc' = "done"
               ELSE /\ result' = NoResult
                    /\ storeLog' = <<"Order.aggregate", "Order.aggregate">>
                    /\ tasks' = [overall |-> Pending, category |-> Pending]
                    /\ pc' = "analytics_await"
    /\ UNCHANGED data

\* A failed aggregation taken for an empty answer.
AnalyticsRejectsSwallowed(which) ==
    /\ storeErr' = "MongoError"
    /\ tasks' = [tasks EXCEPT ![which] = Fulfilled(<<>>)]
    /\ UNCHANGED <<pc, result>>

\* Promise.all rejects as soon as one aggregation does; the catch block
\* turns the store's error into INTERNAL_SERVER_ERROR.
AnalyticsRejects(which) ==
    /\ storeErr' = "MongoError"
    /\ tasks' = [tasks EXCEPT ![which] = Rejected]
    /\ result' = Failed(GraphQLError("INTERNAL_SERVER_ERROR"))
    /\ pc' = "done"

OverallSettles ==
    /\ pc = "analytics_await"
    /\ tasks.overall.state = "pending"
    /\ \/ \E start \in NewDate(args.startDate), end \in NewDate(args.endDate) :
            /\ tasks' = [tasks EXCEPT !.overall =
                            Fulfilled(OverallAnalyticsPipeline(orders, start, end))]
            /\ UNCHANGED <<pc, result, storeErr>>
       \/ AnalyticsRejects("overall")
    /\ UNCHANGED <<data, op, args, storeLog>>

CategorySettles ==
    /\ pc = "analytics_await"
    /\ tasks.category.state = "pending"
    /\ \/ \E start \in NewDate(args.startDate), end \in NewDate(args.endDate) :
          \E res \in CategoryBreakdownPipeline(orders, products, start, end) :
            /\ tasks' = [tasks EXCEPT !.category = Fulfilled(res)]
            /\ UNCHANGED <<pc, result, storeErr>>
       \/ AnalyticsRejects("category")
    /\ UNCHANGED <<data, op, args, storeLog>>

\* categoryResult.map(item => ({...item, revenue: parseFloat(item.revenue.toFixed(2))}))
RECURSIVE MapToFixed2(_)
MapToFixed2(categoryResult) ==
    IF Len(categoryResult) = 0 THEN {<<>>}
    ELSE {<<[category |-> Head(categoryResult).category, revenue |-> r]>> \o rest :
            r \in ToFixed2(Head(categoryResult).revenue, 1),
            rest \in MapToFixed2(Tail(categoryResult))}

\* The code after the await: both aggregations have answered.
AnalyticsAssemble ==
    /\ pc = "analytics_await"
    /\ tasks.overall.state = "fulfilled"
    /\ tasks.category.state = "fulfilled"
    /\ LET overallResult == tasks.overall.value
           categoryResult == tasks.category.value
       IN  \E totalRevenue \in (IF Len(overallResult) > 0
                                THEN ToFixed2(overallResult[1].totalRevenue, 1) ELSE {0}),
              categoryBreakdown \in MapToFixed2(categoryResult) :
                result' = Ok([totalRevenue |-> totalRevenue,
                              completedOrders |-> IF Len(overallResult) > 0
                                                  THEN overallResult[1].completedOrders ELSE 0,
                              categoryBreakdown |-> categoryBreakdown])
    /\ pc' = "done"
    /\ UNCHANGED <<data, op, args, storeLog, storeErr, tasks>>

\* ------------------------------------- getCustomer, getProduct, getOrder

LookupIds == {"c1", "c2", "p1", "p4", "o1", "o4"}

\* The collection each point lookup reads.
LookupCollection(name) ==
    CASE name = "getCustomer" -> customers
      [] name = "getProduct" -> products
      [] name = "getOrder" -> orders

\* The catch block of the point lookups: a CastError becomes
\* BAD_USER_INPUT, anything else (the NOT_FOUND thrown in the try block
\* included) a GraphQLError without a code.
LookupCatch(error) ==
    IF error.type = "CastError" THEN GraphQLError("BAD_USER_INPUT")
    ELSE [type |-> "GraphQLError", code |-> "UNSET"]

LookupCall(name) ==
    /\ pc = "idle"
    /\ \E id \in LookupIds :
        /\ op' = name
        /\ args' = [id |-> id]
    /\ storeErr' = "none"
    /\ storeLog' = <<name>>
    /\ result' = NoResult
    /\ pc' = "lookup_findById"
    /\ UNCHANGED <<data, tasks>>

CallGetCustomer == LookupCall("getCustomer")

CallGetProduct == LookupCall("getProduct")

CallGetOrder == LookupCall("getOrder")

LookupReturns ==
    /\ pc = "lookup_findById"
    /\ \/ LET found == FindById(LookupCollection(op), args.id)
          IN  /\ result' = IF found = {}
                           THEN Failed(LookupCatch(GraphQLError("NOT_FOUND")))
                           ELSE Ok(found)
              /\ UNCHANGED storeErr
       \/ \E e \in {"CastError", "MongoError"} :
            /\ storeErr' = e
            /\ result' = Failed(LookupCatch(StoreError(e)))
    /\ pc' = "done"
    /\ UNCHANGED <<data, op, args, storeLog, tasks>>

\* --------------------------------------- Order.customer, OrderItem.product

\* The field resolvers the server runs for one returned order: customer for
\* the order and product for each of its line items.
Siblings(order) ==
    <<[field |-> "Order.customer", key |-> order.customerId, state |-> "pending",
       outcome |-> "none", value |-> {}]>>
    \o [i \in DOMAIN order.products |->
            [field |-> "OrderItem.product", key |-> order.products[i].productId,
             state |-> "pending", outcome |-> "none", value |-> {}]]

ResolveOrder ==
    /\ pc = "idle"
    /\ \E parent \in orders :
        /\ op' = "resolve"
        /\ args' = [id |-> parent._id]
        /\ tasks' = Siblings(parent)
        /\ storeLog' = [i \in DOMAIN Siblings(parent) |-> Siblings(parent)[i].field]
    /\ storeErr' = "none"
    /\ result' = NoResult
    /\ pc' = "resolving"
    /\ UNCHANGED data

\* A catch block that throws the error on.
ResolverCatchRethrows(task, e) ==
    [task EXCEPT !.state = "rejected", !.outcome = e]

\* The catch block of a field resolver: the error is logged, null returned.
ResolverCatch(task, e) ==
    [task EXCEPT !.state = "fulfilled", !.outcome = e, !.value = {}]

\* return await Customer.findById(parent.customerId), and the same for
\* Product.findById(parent.productId): the document or null.
ResolverReturns(task) ==
    [task EXCEPT !.state = "fulfilled", !.outcome = "ok",
                 !.value = FindById(IF task.field = "Order.customer"
                                    THEN customers ELSE products, task.key)]

\* One field resolver's findById answers.
ResolverSettles ==
    /\ pc = "resolving"
    /\ \E i \in DOMAIN tasks :
        /\ tasks[i].state = "pending"
        /\ \/ /\ tasks' = [tasks EXCEPT ![i] = ResolverReturns(tasks[i])]
              /\ UNCHANGED storeErr
           \/ \E e \in {"CastError", "MongoError"} :
                /\ tasks' = [tasks EXCEPT ![i] = ResolverCatch(tasks[i], e)]
                /\ storeErr' = e
    /\ UNCHANGED <<data, pc, op, args, storeLog, result>>

\* Every field has resolved: the response carries the resolved fields, and
\* an error when a resolver threw.
ResolveCompletes ==
    /\ pc = "resolving"
    /\ \A i \in DOMAIN tasks : tasks[i].state # "pending"
    /\ result' = IF \E i \in DOMAIN tasks : tasks[i].state = "rejected"
                 THEN Failed(GraphQLError("INTERNAL_SERVER_ERROR"))
                 ELSE Ok([i \in DOMAIN tasks |-> tasks[i].value])
    /\ pc' = "done"
    /\ UNCHANGED <<data, op, args, storeLog, storeErr, tasks>>

\* ------------------------------------------------------------ the server

\* The response is sent; the server takes the next query.
Respond ==
    /\ pc = "done"
    /\ pc' = "idle"
    /\ op' = "none"
    /\ args' = [customerId |-> NoArg]
    /\ storeLog' = <<>>
    /\ storeErr' = "none"
    /\ tasks' = <<>>
    /\ result' = NoResult
    /\ UNCHANGED data

Idle ==
    /\ pc = "idle"
    /\ op = "none"
    /\ args = [customerId |-> NoArg]
    /\ storeLog = <<>>
    /\ storeErr = "none"
    /\ tasks = <<>>
    /\ result = NoResult

\* ------------------------------------------------------------- datasets

SpendingAmounts == {1000, 1010, 1015}

SpendingOrders ==
    [customerId : {"c1", "c2"}, products : {<<>>}, totalAmount : SpendingAmounts,
     orderDate : {1, 2}, status : Statuses]

InitSpending ==
    /\ customers = {CustomerDoc("c1", "Ann")}
    /\ products = {}
    /\ \E n \in 0..MaxOrders : \E f \in [1..n -> SpendingOrders] :
            orders = {[_id |-> OrderIds[i]] @@ f[i] : i \in 1..n}
    /\ Idle

NextSpending ==
    \/ CallGetCustomerSpending
    \/ SpendingAggregateReturns
    \/ SpendingFindByIdReturns
    \/ Respond

SpecSpending == InitSpending /\ [][NextSpending]_vars

TopItems == {OrderItem(p, q, 1000) : p \in {"p1", "p2", "p3"}, q \in {1, 2}}

TopItemLists ==
    {<<>>} \cup {<<i>> : i \in TopItems}
           \cup {<<x[1], x[2]>> : x \in {y \in TopItems \X TopItems :
                                            y[1].productId # y[2].productId /\ y[2].quantity = 1}}

TopOrders ==
    [customerId : {"c1"}, products : TopItemLists, totalAmount : {1000},
     orderDate : {1}, status : {"pending", "completed"}]

InitTop ==
    /\ customers = {CustomerDoc("c1", "Ann")}
    /\ products = {ProductDoc("p1", "Pen", "office"), ProductDoc("p2", "Ink", "office")}
    /\ \E n \in 0..MaxOrders : \E f \in [1..n -> TopOrders] :
            orders = {[_id |-> OrderIds[i]] @@ f[i] : i \in 1..n}
    /\ Idle

NextTop ==
    \/ CallGetTopSellingProducts
    \/ TopAggregateReturns
    \/ Respond

SpecTop == InitTop /\ [][NextTop]_vars

NextAnalytics ==
    \/ CallGetSalesAnalytics
    \/ OverallSettles
    \/ CategorySettles
    \/ AnalyticsAssemble
    \/ Respond

Catalogue ==
    {ProductDoc("p1", "Pen", "office"), ProductDoc("p2", "Ink", "office"),
     ProductDoc("p3", "Tea", "food")}

TotalsOrders ==
    [customerId : {"c1"}, products : {<<>>}, totalAmount : {1000, 1015},
     orderDate : {1, 2, 3}, status : Statuses]

InitTotals ==
    /\ customers = {CustomerDoc("c1", "Ann")}
    /\ products = Catalogue
    /\ \E n \in 0..MaxOrders : \E f \in [1..n -> TotalsOrders] :
            orders = {[_id |-> OrderIds[i]] @@ f[i] : i \in 1..n}
    /\ Idle

SpecTotals == InitTotals /\ [][NextAnalytics]_vars

CategoryItems ==
    {OrderItem(p, x[1], x[2]) : p \in {"p1", "p2", "p3", "p4"}, x \in {<<1, 1004>>, <<3, 1005>>}}

CategoryItemLists ==
    {<<>>} \cup {<<i>> : i \in CategoryItems}
           \cup {<<x[1], x[2]>> : x \in {y \in CategoryItems \X CategoryItems :
                                            /\ y[1].productId # "p2" /\ y[1].quantity = 1
                                            /\ y[2].productId = "p2" /\ y[2].quantity = 3}}

CategoryOrders ==
    [customerId : {"c1"}, products : CategoryItemLists,
     totalAmount : {1000}, orderDate : {2}, status : {"completed", "pending"}]

InitCategories ==
    /\ customers = {CustomerDoc("c1", "Ann")}
    /\ products = Catalogue
    /\ \E n \in 0..MaxOrders : \E f \in [1..n -> CategoryOrders] :
            orders = {[_id |-> OrderIds[i]] @@ f[i] : i \in 1..n}
    /\ Idle

SpecCategories == InitCategories /\ [][NextAnalytics]_vars

NextLookup ==
    \/ CallGetCustomer
    \/ CallGetProduct
    \/ CallGetOrder
    \/ LookupReturns
    \/ Respond

NextResolve ==
    \/ ResolveOrder
    \/ ResolverSettles
    \/ ResolveCompletes
    \/ Respond

Next ==
    \/ CallGetCustomerSpending
    \/ SpendingAggregateReturns
    \/ SpendingFindByIdReturns
    \/ CallGetTopSellingProducts
    \/ TopAggregateReturns
    \/ CallGetSalesAnalytics
    \/ OverallSettles
    \/ CategorySettles
    \/ AnalyticsAssemble
    \/ CallGetCustomer
    \/ CallGetProduct
    \/ CallGetOrder
    \/ LookupReturns
    \/ ResolveOrder
    \/ ResolverSettles
    \/ ResolveCompletes
    \/ Respond

ShopOrders ==
    [customerId : {"c1", "c2"},
     products : {<<>>, <<OrderItem("p1", 1, 1004)>>,
                 <<OrderItem("p4", 3, 1005), OrderItem("p1", 1, 1004)>>},
     totalAmount : {1015}, orderDate : {2}, status : {"completed", "canceled"}]

Init ==
    /\ customers = {CustomerDoc("c1", "Ann")}
    /\ products = Catalogue
    /\ \E n \in 0..MaxOrders : \E f \in [1..n -> ShopOrders] :
            orders = {[_id |-> OrderIds[i]] @@ f[i] : i \in 1..n}
    /\ Idle

Spec == Init /\ [][Next]_vars

SpecLookup == Init /\ [][NextLookup]_vars

SpecResolve == Init /\ [][NextResolve]_vars

\* ------------------------------------------- claims: getCustomerSpending

RECURSIVE TotalAmount(_)
TotalAmount(S) ==
    IF S = {} THEN 0
    ELSE LET o == CHOOSE x \in S : TRUE IN o.totalAmount + TotalAmount(S \ {o})

OrdersOfCustomer(c) == {o \in orders : o.customerId = c}

SpendingDone == pc = "done" /\ op = "getCustomerSpending"

\* r is num/den rounded to 2 decimals: a multiple of 10 mills at most half
\* a cent away from num/den.
IsRounded2(r, num, den) ==
    /\ r % 10 = 0
    /\ 2 * (r * den - num) <= 10 * den
    /\ 2 * (num - r * den) <= 10 * den

\* C1 (as claimed): getCustomerSpending with a non-empty customerId that has
\* no order and no Customer record, the store answering both reads without
\* error, fails with NOT_FOUND.
C1_UnknownCustomerIsNotFound ==
    (/\ SpendingDone
     /\ ~Falsy(args.customerId)
     /\ OrdersOfCustomer(args.customerId) = {}
     /\ FindById(customers, args.customerId) = {}
     /\ storeErr = "none")
    => (result.status = "error" /\ ErrorKind(result.code) = "NOT_FOUND")

\* C2: for a customer that is in the Customer collection and has no order,
\* getCustomerSpending never fails with NOT_FOUND and, the store answering
\* its reads, returns {customerId, totalSpent 0, averageOrderValue 0,
\* lastOrderDate null}.
C2_CustomerWithoutOrdersGetsZeroSummary ==
    (/\ SpendingDone
     /\ ~Falsy(args.customerId)
     /\ FindById(customers, args.customerId) # {}
     /\ OrdersOfCustomer(args.customerId) = {})
    => /\ ~(result.status = "error" /\ ErrorKind(result.code) = "NOT_FOUND")
       /\ storeErr = "none" =>
            /\ result.status = "ok"
            /\ result.value = [customerId |-> args.customerId, totalSpent |-> 0,
                               averageOrderValue |-> 0, lastOrderDate |-> {}]

C2_Witness ==
    /\ SpendingDone
    /\ args.customerId = "c1"
    /\ FindById(customers, "c1") # {}
    /\ OrdersOfCustomer("c1") = {}
    /\ OrdersOfCustomer("c2") # {}
    /\ storeLog = <<"Order.aggregate", "Customer.findById">>
    /\ result.status = "ok"

\* C3 (as claimed): with at least one order of the customer, totalSpent is
\* the sum of their totalAmount, averageOrderValue is that sum divided by
\* their number, lastOrderDate is the greatest orderDate.
C3_SpendingIsExactSumAndQuotient ==
    (SpendingDone /\ result.status = "ok" /\ OrdersOfCustomer(args.customerId) # {})
    => LET mine == OrdersOfCustomer(args.customerId)
       IN  /\ result.value.totalSpent = TotalAmount(mine)
           /\ result.value.averageOrderValue * Cardinality(mine) = TotalAmount(mine)
           /\ \E o \in mine :
                /\ result.value.lastOrderDate = {o.orderDate}
                /\ \A q \in mine : q.orderDate <= o.orderDate

\* C3 (amended): with at least one order of the customer (of any status),
\* totalSpent is the sum of their totalAmount rounded to 2 decimals,
\* averageOrderValue is that sum divided by their number rounded to 2
\* decimals, lastOrderDate is the greatest orderDate, and the query does not
\* fail when the store answers.
C3_SpendingIsRoundedSumAndQuotient ==
    (SpendingDone /\ ~Falsy(args.customerId) /\ OrdersOfCustomer(args.customerId) # {}
        /\ storeErr = "none")
    => LET mine == OrdersOfCustomer(args.customerId)
       IN  /\ result.status = "ok"
           /\ result.value.customerId = args.customerId
           /\ IsRounded2(result.value.totalSpent, TotalAmount(mine), 1)
           /\ IsRounded2(result.value.averageOrderValue, TotalAmount(mine), Cardinality(mine))
           /\ \E o \in mine :
                /\ result.value.lastOrderDate = {o.orderDate}
                /\ \A q \in mine : q.orderDate <= o.orderDate

C3_Witness ==
    /\ SpendingDone
    /\ result.status = "ok"
    /\ Cardinality(OrdersOfCustomer(args.customerId)) = 2
    /\ \E o, q \in OrdersOfCustomer(args.customerId) :
            o.orderDate < q.orderDate /\ o.status # q.status /\ o.status # "completed"
    /\ TotalAmount(OrdersOfCustomer(args.customerId)) = 2010
    /\ result.value.totalSpent = 2010
    /\ result.value.averageOrderValue \in {1000, 1010}

\* ----------------------------------------- claims: getTopSellingProducts

TopDone == pc = "done" /\ op = "getTopSellingProducts"

\* C4: for a positive limit N, getTopSellingProducts(N) answers, when the
\* store does, with at most N items, totalSold non-increasing from first to
\* last, no productId twice.
C4_TopSellingBoundedSortedDistinct ==
    (TopDone /\ storeErr = "none" /\ \E n \in args.limit : n > 0)
    => /\ result.status = "ok"
       /\ \A n \in args.limit : Len(result.value) <= n
       /\ \A i, j \in DOMAIN result.value :
            i < j => /\ result.value[i].totalSold >= result.value[j].totalSold
                     /\ result.value[i].productId # result.value[j].productId

C4_Witness ==
    /\ TopDone
    /\ args.limit = {2}
    /\ Cardinality(UNION {{o.products[i].productId : i \in DOMAIN o.products} : o \in orders}) = 3
    /\ result.status = "ok"
    /\ Len(result.value) = 2
    /\ result.value[1].totalSold > result.value[2].totalSold

\* --------------------------------------------- claims: getSalesAnalytics

AnalyticsDone == pc = "done" /\ op = "getSalesAnalytics"

DayOf(string) == CHOOSE d \in NewDate(string) : TRUE

ValidWindow ==
    /\ NewDate(args.startDate) # {}
    /\ NewDate(args.endDate) # {}
    /\ DayOf(args.startDate) < DayOf(args.endDate)

\* The completed orders with startDate <= orderDate < endDate.
InWindow ==
    {o \in orders : /\ o.status = "completed"
                    /\ DayOf(args.startDate) <= o.orderDate
                    /\ o.orderDate < DayOf(args.endDate)}

\* C5 (as claimed): with valid startDate < endDate, completedOrders is the
\* number of completed orders with startDate <= orderDate < endDate and
\* totalRevenue is the sum of their stored totalAmount.
C5_TotalsAreCountAndExactSum ==
    (AnalyticsDone /\ result.status = "ok")
    => /\ result.value.completedOrders = Cardinality(InWindow)
       /\ result.value.totalRevenue = TotalAmount(InWindow)

\* C5 (amended): with valid startDate < endDate, and the store answering,
\* completedOrders is the number of completed orders with
\* startDate <= orderDate < endDate and totalRevenue is the sum of their
\* stored totalAmount rounded to 2 decimals (both 0 when none match).
C5_TotalsAreCountAndRoundedSum ==
    (AnalyticsDone /\ ValidWindow /\ storeErr = "none")
    => /\ result.status = "ok"
       /\ result.value.completedOrders = Cardinality(InWindow)
       /\ IsRounded2(result.value.totalRevenue, TotalAmount(InWindow), 1)
       /\ InWindow = {} => result.value.totalRevenue = 0

C5_Witness ==
    /\ AnalyticsDone
    /\ result.status = "ok"
    /\ \E o, q \in orders :
        /\ o.status = "completed" /\ o.orderDate = DayOf(args.startDate)
        /\ q.status = "completed" /\ q.orderDate = DayOf(args.endDate)
    /\ result.value.completedOrders = 1
    /\ result.value.totalRevenue > 0

\* The line items <<order, index>> of the orders in the window whose
\* product is of category c.
LineItemsOf(c) ==
    {x \in UNION {{<<o, i>> : i \in DOMAIN o.products} : o \in InWindow} :
        \E p \in products : p._id = x[1].products[x[2]].productId /\ p.category = c}

RECURSIVE LineRevenue(_)
LineRevenue(S) ==
    IF S = {} THEN 0
    ELSE LET x == CHOOSE y \in S : TRUE
         IN  x[1].products[x[2]].quantity * x[1].products[x[2]].priceAtPurchase
                + LineRevenue(S \ {x})

SoldCategories == {p.category : p \in products} \ {c \in {p.category : p \in products} : LineItemsOf(c) = {}}

\* C6 (as claimed): categoryBreakdown has one entry per category, its
\* revenue the sum of quantity x priceAtPurchase over the line items of the
\* orders in the window that join to a product of the category, sorted
\* descending by revenue, empty when no order matches.
C6_BreakdownIsExactSum ==
    (AnalyticsDone /\ result.status = "ok")
    => LET cb == result.value.categoryBreakdown
       IN  /\ {cb[i].category : i \in DOMAIN cb} = SoldCategories
           /\ Len(cb) = Cardinality(SoldCategories)
           /\ \A i \in DOMAIN cb : cb[i].revenue = LineRevenue(LineItemsOf(cb[i].category))
           /\ \A i, j \in DOMAIN cb : i < j => cb[i].revenue >= cb[j].revenue
           /\ InWindow = {} => cb = <<>>

\* C6 (amended): categoryBreakdown has one entry per category with a line
\* item in the window, its revenue the sum of quantity x priceAtPurchase
\* over the line items of the orders in the window that join to a product
\* of the category, rounded to 2 decimals; the entries are sorted descending
\* by revenue, and the sequence is empty when no order matches.
C6_BreakdownIsRoundedSum ==
    (AnalyticsDone /\ ValidWindow /\ storeErr = "none")
    => LET cb == result.value.categoryBreakdown
       IN  /\ result.status = "ok"
           /\ {cb[i].category : i \in DOMAIN cb} = SoldCategories
           /\ Len(cb) = Cardinality(SoldCategories)
           /\ \A i \in DOMAIN cb :
                IsRounded2(cb[i].revenue, LineRevenue(LineItemsOf(cb[i].category)), 1)
           /\ \A i, j \in DOMAIN cb : i < j => cb[i].revenue >= cb[j].revenue
           /\ InWindow = {} => cb = <<>>

C6_Witness ==
    /\ AnalyticsDone
    /\ result.status = "ok"
    /\ Len(result.value.categoryBreakdown) = 2
    /\ result.value.categoryBreakdown[1].revenue > result.value.categoryBreakdown[2].revenue
    /\ Cardinality(LineItemsOf("office")) = 2
    /\ result.value.categoryBreakdown[1].category = "office"
    /\ result.value.categoryBreakdown[1].revenue # LineRevenue(LineItemsOf("office"))

\* C9: in getSalesAnalytics with valid dates both aggregations are issued
\* before either is awaited, a result is assembled only from two fulfilled
\* aggregations, and once either aggregation has failed the query has
\* failed with INTERNAL, whichever settled first.
C9_BothIssuedAllOrNothing ==
    (op = "getSalesAnalytics" /\ ValidWindow)
    => /\ storeLog = <<"Order.aggregate", "Order.aggregate">>
       /\ pc \in {"analytics_await", "done"}
       /\ (pc = "done" /\ result.status = "ok")
            => tasks.overall.state = "fulfilled" /\ tasks.category.state = "fulfilled"
       /\ (storeErr # "none" \/ tasks.overall.state = "rejected" \/ tasks.category.state = "rejected")
            => /\ pc = "done"
               /\ result.status = "error"
               /\ ErrorKind(result.code) = "INTERNAL"
       /\ pc = "analytics_await" => result.status = "none"

C9_Witness ==
    /\ AnalyticsDone
    /\ ValidWindow
    /\ tasks.overall.state = "fulfilled"
    /\ Len(tasks.overall.value) = 1
    /\ tasks.category.state = "rejected"
    /\ ErrorKind(result.code) = "INTERNAL"

\* -------------------------------------------------- claims: validation

\* C7: a query with an invalid parameter (getCustomerSpending with a missing
\* or empty customerId, getTopSellingProducts with the limit absent or <= 0,
\* getSalesAnalytics with an unparsable date or startDate >= endDate) has
\* failed with BAD_INPUT and has issued no access to the store.
C7_InvalidInputFailsBeforeStoreAccess ==
    (\/ op = "getCustomerSpending" /\ args.customerId \in {NoArg, ""}
     \/ op = "getTopSellingProducts" /\ (args.limit = {} \/ \E n \in args.limit : n <= 0)
     \/ op = "getSalesAnalytics" /\ ~ValidWindow)
    => /\ pc = "done"
       /\ result.status = "error"
       /\ ErrorKind(result.code) = "BAD_INPUT"
       /\ storeLog = <<>>
       /\ storeErr = "none"

C7_Witness ==
    /\ AnalyticsDone
    /\ args.startDate = "2024-01-02"
    /\ args.endDate = "2024-01-02"
    /\ orders # {}
    /\ ErrorKind(result.code) = "BAD_INPUT"
    /\ storeLog = <<>>

\* ---------------------------------------------------- claims: lookups

LookupDone == pc = "done" /\ op \in {"getCustomer", "getProduct", "getOrder"}

Stored ==
    {d \in (IF op = "getCustomer" THEN customers
            ELSE IF op = "getProduct" THEN products ELSE orders) : d._id = args.id}

\* C8 (as claimed): a point lookup returns the stored record with the given
\* id when there is one, fails with NOT_FOUND when the store answers and no
\* record has the id, and fails with BAD_INPUT when the store rejects the id
\* as malformed.
C8_LookupFoundNotFoundBadInput ==
    LookupDone
    => /\ (storeErr = "none" /\ Stored # {})
            => result.status = "ok" /\ result.value = Stored
       /\ (storeErr = "none" /\ Stored = {})
            => result.status = "error" /\ ErrorKind(result.code) = "NOT_FOUND"
       /\ storeErr = "CastError"
            => result.status = "error" /\ ErrorKind(result.code) = "BAD_INPUT"

\* ------------------------------------------ claims: relationship resolution

Referenced(task) ==
    {d \in (IF task.field = "Order.customer" THEN customers ELSE products) : d._id = task.key}

\* C10: a field resolver (Order.customer, OrderItem.product) never fails: it
\* yields the referenced record when the store returns one and null when the
\* record does not exist or the lookup raises an error, whatever happens to
\* the resolvers of its siblings; the response then carries no error.
C10_ResolversYieldRecordOrNull ==
    op = "resolve"
    => /\ \A i \in DOMAIN tasks :
            /\ tasks[i].state # "rejected"
            /\ tasks[i].state = "fulfilled"
                => tasks[i].value = IF tasks[i].outcome = "ok" THEN Referenced(tasks[i]) ELSE {}
       /\ pc = "done"
            => /\ result.status = "ok"
               /\ \A i \in DOMAIN tasks : result.value[i] = tasks[i].value

C10_Witness ==
    /\ pc = "done"
    /\ op = "resolve"
    /\ result.status = "ok"
    /\ \E i, j, k \in DOMAIN tasks :
        /\ tasks[i].outcome = "MongoError" /\ Referenced(tasks[i]) # {} /\ result.value[i] = {}
        /\ tasks[j].outcome = "ok" /\ result.value[j] # {}
        /\ tasks[k].outcome = "ok" /\ result.value[k] = {}

\* ------------------------------- claims: getTopSellingProducts, the join

\* The line items <<order, index>> of all orders, of any status, that sell
\* product p.
LinesSelling(p) ==
    {x \in UNION {{<<o, i>> : i \in DOMAIN o.products} : o \in orders} :
        x[1].products[x[2]].productId = p}

RECURSIVE QuantityOf(_)
QuantityOf(S) ==
    IF S = {} THEN 0
    ELSE LET x == CHOOSE y \in S : TRUE
         IN  x[1].products[x[2]].quantity + QuantityOf(S \ {x})

SoldProductIds ==
    UNION {{o.products[i].productId : i \in DOMAIN o.products} : o \in orders}

\* The sets of productIds that can be the first n groups in descending
\* order of quantity sold.
TopGroups(n) ==
    {T \in SUBSET SoldProductIds :
        /\ Cardinality(T) = (IF n < Cardinality(SoldProductIds)
                             THEN n ELSE Cardinality(SoldProductIds))
        /\ \A p \in T, q \in SoldProductIds \ T :
                QuantityOf(LinesSelling(p)) >= QuantityOf(LinesSelling(q))}

\* C11: getTopSellingProducts(limit) sums quantity per productId over the
\* line items of all orders regardless of status, takes the first `limit`
\* groups in descending order of the sum and only then joins to Product: the
\* result is exactly the groups among those first `limit` that have a
\* Product record, each with that product's name and its summed quantity,
\* so a group without a Product record is dropped and not replaced.
C11_LimitThenJoinDropsUnmatched ==
    (TopDone /\ result.status = "ok")
    => \E n \in args.limit : \E T \in TopGroups(n) :
        /\ {result.value[i].productId : i \in DOMAIN result.value}
                = {p \in T : \E d \in products : d._id = p}
        /\ \A i \in DOMAIN result.value :
            /\ result.value[i].totalSold = QuantityOf(LinesSelling(result.value[i].productId))
            /\ \E d \in products :
                d._id = result.value[i].productId /\ d.name = result.value[i].name
        /\ \A i, j \in DOMAIN result.value :
            i < j => /\ result.value[i].productId # result.value[j].productId
                     /\ result.value[i].totalSold >= result.value[j].totalSold

C11_Witness ==
    /\ TopDone
    /\ result.status = "ok"
    /\ args.limit = {2}
    /\ Len(result.value) = 1
    /\ Cardinality({p \in SoldProductIds : \E d \in products : d._id = p}) = 2
    /\ \E p \in SoldProductIds :
        /\ \A d \in products : d._id # p
        /\ \A q \in SoldProductIds \ {p} :
                QuantityOf(LinesSelling(p)) > QuantityOf(LinesSelling(q))
    /\ \E o \in orders : o.status = "pending" /\ o.products # <<>>

====
